---- MODULE Spec2Model ----
(***************************************************************************)
(* Areal interpolation of census-tract population onto D.C. historic        *)
(* districts: the 2020 cross-section (2_2020_analysis.py) followed by the   *)
(* 1970-2020 time series (1_time_series_analysis_1970_2020.py), which reads *)
(* the two geopackages the first script writes.                             *)
(*                                                                          *)
(* Geometry is a set of unit cells of the plane (area = number of cells);   *)
(* a table is a sequence of rows (records); a float is an exact rational or *)
(* one of NaN, +inf, -inf, with the arithmetic of numpy/pandas.             *)
(***************************************************************************)
EXTENDS Integers, Sequences, FiniteSets, TLC

\* ------------------------------------------------------------------ bounds
\* Number of unit cells of the plane the polygons are drawn on.
NCells == 3

Cells == 1..NCells

\* Largest count in a cell of an attribute table.
MaxCount == 2

\* ------------------------------------------------------------------ floats
RECURSIVE GCD(_, _)
GCD(a, b) == IF b = 0 THEN a ELSE GCD(b, a % b)

Abs(i) == IF i < 0 THEN -i ELSE i

\* The rational n/d, reduced, denominator positive (d # 0).
Num(n, d) ==
    LET g == GCD(Abs(n), Abs(d))
        s == IF d < 0 THEN -1 ELSE 1
    IN  [k |-> "num", n |-> (s * n) \div g, d |-> Abs(d) \div g]

Flt(i) == [k |-> "num", n |-> i, d |-> 1]
NaN    == [k |-> "nan", n |-> 0, d |-> 1]
PosInf == [k |-> "pinf", n |-> 0, d |-> 1]
NegInf == [k |-> "ninf", n |-> 0, d |-> 1]

IsNum(x) == x.k = "num"
IsNaN(x) == x.k = "nan"
IsInf(x) == x.k \in {"pinf", "ninf"}

\* -1, 0 or 1; of a number or an infinity.
Sign(x) ==
    CASE x.k = "pinf" -> 1
      [] x.k = "ninf" -> -1
      [] OTHER        -> IF x.n > 0 THEN 1 ELSE IF x.n < 0 THEN -1 ELSE 0

InfOf(s) == IF s > 0 THEN PosInf ELSE NegInf

FNeg(x) ==
    CASE x.k = "num"  -> Num(-x.n, x.d)
      [] x.k = "pinf" -> NegInf
      [] x.k = "ninf" -> PosInf
      [] OTHER        -> NaN

FAdd(x, y) ==
    CASE IsNaN(x) \/ IsNaN(y) -> NaN
      [] IsInf(x) /\ IsInf(y) -> IF x.k = y.k THEN x ELSE NaN
      [] IsInf(x)             -> x
      [] IsInf(y)             -> y
      [] OTHER                -> Num(x.n * y.d + y.n * x.d, x.d * y.d)

FSub(x, y) == FAdd(x, FNeg(y))

FMul(x, y) ==
    CASE IsNaN(x) \/ IsNaN(y) -> NaN
      [] IsInf(x) \/ IsInf(y) ->
            IF Sign(x) * Sign(y) = 0 THEN NaN ELSE InfOf(Sign(x) * Sign(y))
      [] OTHER                -> Num(x.n * y.n, x.d * y.d)

\* Float division: x/0 is +-inf for x # 0 and NaN for x = 0, never an error.
FDiv(x, y) ==
    CASE IsNaN(x) \/ IsNaN(y)  -> NaN
      [] IsInf(x) /\ IsInf(y)  -> NaN
      [] IsInf(x)              -> IF Sign(y) < 0 THEN FNeg(x) ELSE x
      [] IsInf(y)              -> Flt(0)
      [] y.n = 0               -> IF x.n = 0 THEN NaN ELSE InfOf(x.n)
      [] OTHER                 -> Num(x.n * y.d, x.d * y.n)

\* fillna(0)
FillNa0(x) == IF IsNaN(x) THEN Flt(0) ELSE x

\* x < y and x <= y on numbers (false when either is not a number).
FLt(x, y) == IsNum(x) /\ IsNum(y) /\ x.n * y.d < y.n * x.d
FLe(x, y) == IsNum(x) /\ IsNum(y) /\ x.n * y.d <= y.n * x.d

\* --------------------------------------------------------------- sequences
RECURSIVE FoldSeq(_, _, _)
FoldSeq(Op(_, _), acc, s) ==
    IF s = <<>> THEN acc ELSE FoldSeq(Op, Op(acc, Head(s)), Tail(s))

\* The rows of s that satisfy Test, in order.
FilterSeq(s, Test(_)) == SelectSeq(s, Test)

MapSeq(s, F(_)) == [i \in 1..Len(s) |-> F(s[i])]

RECURSIVE Flatten(_)
Flatten(ss) == IF ss = <<>> THEN <<>> ELSE Head(ss) \o Flatten(Tail(ss))

Range(s) == {s[i] : i \in 1..Len(s)}

\* pandas' sum of a column: missing values are skipped, an empty sum is 0.
SumSkipNa(s) ==
    LET Step(acc, x) == IF IsNaN(x) THEN acc ELSE FAdd(acc, x)
    IN  FoldSeq(Step, Flt(0), s)

\* The elements of the set S of strings, as a sequence ordered by `order`.
SortBy(S, order) == SelectSeq(order, LAMBDA x : x \in S)

\* The distinct elements of s, in order of first appearance.
RECURSIVE Unique(_)
Unique(s) ==
    IF s = <<>> THEN <<>>
    ELSE LET u == Unique(SubSeq(s, 1, Len(s) - 1))
         IN  IF s[Len(s)] \in Range(u) THEN u ELSE Append(u, s[Len(s)])

\* Position of x in the sequence order (0 when absent): the rank of a string.
Rank(x, order) ==
    IF \E i \in 1..Len(order) : order[i] = x
    THEN CHOOSE i \in 1..Len(order) : order[i] = x
    ELSE 0

\* Lexicographic order of the strings the tables hold.
StrOrder == <<"D1", "D2", "NA", "No", "T1", "T2", "T9", "Yes">>
LessStr(a, b) == Rank(a, StrOrder) < Rank(b, StrOrder)

\* A missing string cell (pandas shows it as NaN).
NoId == "nan"

\* ------------------------------------------------------------------ geometry
\* GeoSeries.area: polygons are sets of unit cells.
Area(geometry) == Flt(Cardinality(geometry))

\* ------------------------------------------------- script 2: 2_2020_analysis.py
\* Columns of pop_by_tract_2020.csv, and of pop once pop_poc is added.
CsvCols2020 == {"pop_total", "pop_white", "housing_total", "housing_owned", "housing_rental"}
PopCols2020 == CsvCols2020 \cup {"pop_poc"}

\* designation_dates['year'] at the index label id; NaN where the label is absent.
DesYear(dates, id) ==
    LET hits == SelectSeq(dates, LAMBDA r : r.hist_district_ID = id)
    IN  IF hits = <<>> THEN NaN ELSE hits[1].year

\* hist_districts with des_year and tot_years = today.year - year (index-aligned).
AddDesignation(file, dates, todayYear) ==
    [i \in 1..Len(file) |->
        [hist_district_ID |-> file[i].hist_district_ID,
         geometry         |-> file[i].geometry,
         des_year         |-> DesYear(dates, file[i].hist_district_ID),
         tot_years        |-> FSub(Flt(todayYear), DesYear(dates, file[i].hist_district_ID))]]

\* pop['pop_poc'] = pop['pop_total'] - pop['pop_white']
AddPopPoc2020(csv) ==
    [i \in 1..Len(csv) |->
        [GEOID |-> csv[i].GEOID,
         attrs |-> [v \in PopCols2020 |->
                      IF v = "pop_poc"
                      THEN FSub(csv[i].attrs["pop_total"], csv[i].attrs["pop_white"])
                      ELSE csv[i].attrs[v]]]]

\* tracts['tract_area'] = tracts.area
AddTractArea(file) ==
    [i \in 1..Len(file) |->
        [GEOID |-> file[i].GEOID, geometry |-> file[i].geometry,
         tract_area |-> Area(file[i].geometry)]]

\* No key of the column occurs twice (merge's validate='1:1').
UniqueKeys(rows) ==
    \A i, j \in 1..Len(rows) : rows[i].GEOID = rows[j].GEOID => i = j

\* DataFrame.merge(how='inner', on='GEOID'): the left rows in order, each with
\* every right row of its key.
MergeInner(left, right) ==
    Flatten([i \in 1..Len(left) |->
        LET hits == SelectSeq(right, LAMBDA r : r.GEOID = left[i].GEOID)
        IN  [j \in 1..Len(hits) |->
                [GEOID |-> left[i].GEOID, geometry |-> left[i].geometry,
                 tract_area |-> left[i].tract_area, attrs |-> hits[j].attrs]]])

\* value_counts of the merge indicator: an inner merge keeps only 'both'.
MergeIndicator(merged) == [both |-> Len(merged), left_only |-> 0, right_only |-> 0]

\* One overlay row: a piece of a tract in a district (either side may be missing).
Slice(t, h, geometry) ==
    [GEOID |-> t.GEOID, tract_area |-> t.tract_area, attrs |-> t.attrs,
     hist_district_ID |-> h.hist_district_ID, des_year |-> h.des_year,
     tot_years |-> h.tot_years, geometry |-> geometry]

NoTract(cols) == [GEOID |-> NoId, tract_area |-> NaN, attrs |-> [v \in cols |-> NaN]]
NoDistrict    == [hist_district_ID |-> NoId, des_year |-> NaN, tot_years |-> NaN]

\* GeoDataFrame.overlay(how='intersection'): one row per pair of rows whose
\* geometries intersect, in the order of the left rows; districts that overlap
\* each other each get their own row for the shared area.
OverlayIntersection(df1, df2) ==
    Flatten([i \in 1..Len(df1) |->
        LET hits == SelectSeq(df2, LAMBDA h : df1[i].geometry \cap h.geometry # {})
        IN  [j \in 1..Len(hits) |->
                Slice(df1[i], hits[j], df1[i].geometry \cap hits[j].geometry)]])

\* The union of the geometries of a table.
AllGeometry(df) == UNION {df[i].geometry : i \in 1..Len(df)}

\* A faulty variant of OverlayUnion: the overlay keeps only what both sides cover.
OverlayUnion_CoveredOnly(df1, df2, cols) == OverlayIntersection(df1, df2)

\* GeoDataFrame.overlay(how='union'): the intersection rows, then what is left
\* of every left row, then what is left of every right row.
OverlayUnion(df1, df2, cols) ==
    LET left  == SelectSeq(
                   [i \in 1..Len(df1) |->
                      Slice(df1[i], NoDistrict, df1[i].geometry \ AllGeometry(df2))],
                   LAMBDA r : r.geometry # {})
        right == SelectSeq(
                   [j \in 1..Len(df2) |->
                      Slice(NoTract(cols), df2[j], df2[j].geometry \ AllGeometry(df1))],
                   LAMBDA r : r.geometry # {})
    IN  OverlayIntersection(df1, df2) \o left \o right

\* dropna(subset='GEOID'), fillna('NA') of hist_district_ID, and s_area.
PrepareSlices2020(overlaid) ==
    LET kept == SelectSeq(overlaid, LAMBDA r : r.GEOID # NoId)
    IN  [i \in 1..Len(kept) |->
            [GEOID |-> kept[i].GEOID, tract_area |-> kept[i].tract_area,
             attrs |-> kept[i].attrs,
             hist_district_ID |-> IF kept[i].hist_district_ID = NoId THEN "NA"
                                  ELSE kept[i].hist_district_ID,
             des_year |-> kept[i].des_year, tot_years |-> kept[i].tot_years,
             geometry |-> kept[i].geometry, s_area |-> Area(kept[i].geometry)]]

\* area_share = s_area / tract_area
AreaShare(slice) == FDiv(slice.s_area, slice.tract_area)

\* realloc[v] = slices[v].mul(area_share), for every column v of pop.
Realloc(slice) == [v \in DOMAIN slice.attrs |-> FMul(slice.attrs[v], AreaShare(slice))]

\* The fill value of a missing tot_years.
NoYears == -666666

\* A faulty variant of Realloc2020: a missing tot_years is left missing.
Realloc2020_NoFill(sl) ==
    [i \in 1..Len(sl) |->
        [GEOID |-> sl[i].GEOID, hist_district_ID |-> sl[i].hist_district_ID,
         key2  |-> sl[i].tot_years, attrs |-> Realloc(sl[i])]]

\* realloc of the 2020 run, index reset, with fillna(values) applied.
Realloc2020(sl) ==
    [i \in 1..Len(sl) |->
        [GEOID |-> sl[i].GEOID,
         hist_district_ID |-> IF sl[i].hist_district_ID = NoId THEN "NA"
                              ELSE sl[i].hist_district_ID,
         key2  |-> IF IsNaN(sl[i].tot_years) THEN Flt(NoYears) ELSE sl[i].tot_years,
         attrs |-> Realloc(sl[i])]]

\* The group key of a row, and the order groupby sorts the keys in.
KeyOf(r) == [hist_district_ID |-> r.hist_district_ID, key2 |-> r.key2]
LessKey(a, b) ==
    \/ LessStr(a.hist_district_ID, b.hist_district_ID)
    \/ a.hist_district_ID = b.hist_district_ID /\ FLt(a.key2, b.key2)

\* A faulty variant of GroupBySum: every row stays a group of its own.
GroupBySum_Ungrouped(rows, cols) ==
    LET valid == SelectSeq(rows, LAMBDA r : r.hist_district_ID # NoId /\ ~IsNaN(r.key2))
    IN  [i \in 1..Len(valid) |->
            [hist_district_ID |-> valid[i].hist_district_ID, key2 |-> valid[i].key2,
             attrs |-> [v \in cols |-> FillNa0(valid[i].attrs[v])]]]

\* groupby([hist_district_ID, key2]).sum(): one row per key, the keys sorted,
\* rows with a missing key left out, missing values skipped by the sum.
GroupBySum(rows, cols) ==
    LET valid == SelectSeq(rows, LAMBDA r : r.hist_district_ID # NoId /\ ~IsNaN(r.key2))
        keys  == SortSeq(Unique([i \in 1..Len(valid) |-> KeyOf(valid[i])]), LessKey)
    IN  [g \in 1..Len(keys) |->
            LET members == SelectSeq(valid, LAMBDA r : KeyOf(r) = keys[g])
            IN  [hist_district_ID |-> keys[g].hist_district_ID,
                 key2  |-> keys[g].key2,
                 attrs |-> [v \in cols |->
                              SumSkipNa([m \in 1..Len(members) |-> members[m].attrs[v]])]]]

\* 100 * numerator / denominator
Pct(numerator, denominator) == FDiv(FMul(Flt(100), numerator), denominator)

\* by_hist_district with pct_poc and pct_rental.
AddPct2020(grouped) ==
    [i \in 1..Len(grouped) |->
        [hist_district_ID |-> grouped[i].hist_district_ID,
         tot_years  |-> grouped[i].key2,
         attrs      |-> grouped[i].attrs,
         pct_poc    |-> Pct(grouped[i].attrs["pop_poc"], grouped[i].attrs["pop_total"]),
         pct_rental |-> Pct(grouped[i].attrs["housing_rental"],
                            grouped[i].attrs["housing_total"])]]

\* by_hist_status: the districts' rows summed by "in a historic district or not".
SumVars == {"pop_total", "pop_white", "pop_poc", "housing_total", "housing_owned",
            "housing_rental"}

\* A faulty variant of InHistDistrict: the area outside the districts counts as
\* historic too.
InHistDistrict_Always(id) == "Yes"

\* np.where(in_hist_district == "NA", "No", "Yes")
InHistDistrict(id) == IF id = "NA" THEN "No" ELSE "Yes"

ByHistStatus(by_district) ==
    LET labels == SortSeq(Unique([i \in 1..Len(by_district) |->
                             InHistDistrict(by_district[i].hist_district_ID)]), LessStr)
    IN  [g \in 1..Len(labels) |->
            LET members == SelectSeq(by_district,
                              LAMBDA r : InHistDistrict(r.hist_district_ID) = labels[g])
                sums    == [v \in SumVars |->
                              SumSkipNa([m \in 1..Len(members) |-> members[m].attrs[v]])]
            IN  [in_hist_district |-> labels[g],
                 attrs      |-> sums,
                 pct_poc    |-> Pct(sums["pop_poc"], sums["pop_total"]),
                 pct_rental |-> Pct(sums["housing_rental"], sums["housing_total"])]]

\* ------------------------- script 1 of 2: 1_time_series_analysis_1970_2020.py
years == <<"1970", "1980", "1990", "2000", "2010", "2020">>

\* astype(float) of the year column.
YearToFloat(year) ==
    CASE year = "1970" -> Flt(1970)
      [] year = "1980" -> Flt(1980)
      [] year = "1990" -> Flt(1990)
      [] year = "2000" -> Flt(2000)
      [] year = "2010" -> Flt(2010)
      [] year = "2020" -> Flt(2020)
      [] OTHER         -> NaN

\* pd.to_numeric(errors='coerce') of a text cell: the number it spells, NaN for
\* anything else (the tables here spell counts up to MaxCount, and "" for none).
ToNumeric(text) ==
    IF \E i \in 0..MaxCount : ToString(i) = text
    THEN Flt(CHOOSE i \in 0..MaxCount : ToString(i) = text)
    ELSE NaN

PopColsTS == {"total_pop", "pop_poc", "pop_white"}

\* Lines 82-131: D.C. rows only, numeric race counts, total_pop and pop_poc.
PreparePop(csv) ==
    LET dc == SelectSeq(csv, LAMBDA r : r.STATEFP = "11")
    IN  [i \in 1..Len(dc) |->
            LET pop_white      == ToNumeric(dc[i].B18AA)
                pop_black      == ToNumeric(dc[i].B18AB)
                pop_native     == ToNumeric(dc[i].B18AC)
                pop_aapi_other == ToNumeric(dc[i].B18AD)
                pop_two_races  == FillNa0(ToNumeric(dc[i].B18AE))
                total_pop      == FAdd(FAdd(FAdd(FAdd(pop_white, pop_black), pop_native),
                                            pop_aapi_other), pop_two_races)
            IN  [GEOID |-> dc[i].GEOID, YEAR |-> dc[i].YEAR,
                 attrs |-> [v \in PopColsTS |->
                              CASE v = "total_pop" -> total_pop
                                [] v = "pop_poc"   -> FSub(total_pop, pop_white)
                                [] OTHER           -> pop_white]]]

\* groupby(...).first() of a column: the first value that is not missing.
FirstValid(col) ==
    LET ok == SelectSeq(col, LAMBDA x : ~IsNaN(x))
    IN  IF ok = <<>> THEN NaN ELSE ok[1]

\* tracts.dissolve('GEOID'): one row per GEOID, sorted, the geometries merged
\* and every other column (tract_area) taken from the group's first row.
DissolveTracts(df) ==
    LET ids == SortSeq(Unique([i \in 1..Len(df) |-> df[i].GEOID]), LessStr)
    IN  [g \in 1..Len(ids) |->
            LET members == SelectSeq(df, LAMBDA r : r.GEOID = ids[g])
            IN  [GEOID |-> ids[g],
                 geometry |-> AllGeometry(members),
                 tract_area |-> FirstValid([m \in 1..Len(members) |-> members[m].tract_area])]]

\* hist_districts.dissolve('hist_district_ID').reset_index()
DissolveDistricts(df) ==
    LET ids == SortSeq(Unique([i \in 1..Len(df) |-> df[i].hist_district_ID]), LessStr)
    IN  [g \in 1..Len(ids) |->
            LET members == SelectSeq(df, LAMBDA r : r.hist_district_ID = ids[g])
            IN  [hist_district_ID |-> ids[g],
                 geometry  |-> AllGeometry(members),
                 des_year  |-> FirstValid([m \in 1..Len(members) |-> members[m].des_year]),
                 tot_years |-> FirstValid([m \in 1..Len(members) |-> members[m].tot_years])]]

\* pop.query("YEAR == year").drop(columns='YEAR')
PopOfYear(pop_ts, year) ==
    LET rows == SelectSeq(pop_ts, LAMBDA r : r.YEAR = year)
    IN  [i \in 1..Len(rows) |-> [GEOID |-> rows[i].GEOID, attrs |-> rows[i].attrs]]

\* Intersection overlay, dropna(subset='tot_years'), and s_area.
SlicesOfYear(tracts_year, districts) ==
    LET kept == SelectSeq(OverlayIntersection(tracts_year, districts),
                          LAMBDA r : ~IsNaN(r.tot_years))
    IN  [i \in 1..Len(kept) |->
            [GEOID |-> kept[i].GEOID, tract_area |-> kept[i].tract_area,
             attrs |-> kept[i].attrs, hist_district_ID |-> kept[i].hist_district_ID,
             des_year |-> kept[i].des_year, tot_years |-> kept[i].tot_years,
             geometry |-> kept[i].geometry, s_area |-> Area(kept[i].geometry)]]

\* realloc_dic[year], index (GEOID, hist_district_ID, des_year) reset.
ReallocOfYear(sl) ==
    [i \in 1..Len(sl) |->
        [GEOID |-> sl[i].GEOID, hist_district_ID |-> sl[i].hist_district_ID,
         key2 |-> sl[i].des_year, attrs |-> Realloc(sl[i])]]

\* years_since_des = year - des_year
YearsSinceDes(year, des_year) == FSub(YearToFloat(year), des_year)

\* by_hist_district_dic[year]: grouped by district, with year and years_since_des.
ByDistrictOfYear(realloc_year, year) ==
    LET grouped == GroupBySum(realloc_year, PopColsTS)
    IN  [i \in 1..Len(grouped) |->
            [hist_district_ID |-> grouped[i].hist_district_ID,
             attrs |-> grouped[i].attrs,
             year  |-> YearToFloat(year),
             years_since_des |-> YearsSinceDes(year, grouped[i].key2)]]

\* A faulty variant of AppendRows: the rows of the year go in front.
AppendRows_InFront(table, rows) == rows \o table

\* DataFrame.append: the rows of the year after the rows already there.
AppendRows(table, rows) == table \o rows

\* perc_poc and perc_white of every row of the combined table.
AddPctTS(table) ==
    [i \in 1..Len(table) |->
        [hist_district_ID |-> table[i].hist_district_ID,
         attrs |-> table[i].attrs,
         year  |-> table[i].year,
         years_since_des |-> table[i].years_since_des,
         perc_poc   |-> Pct(FSub(table[i].attrs["total_pop"], table[i].attrs["pop_white"]),
                            table[i].attrs["total_pop"]),
         perc_white |-> Pct(table[i].attrs["pop_white"], table[i].attrs["total_pop"])]]

\* ------------------------------------------------------------------- inputs
\* tl_2020_11_tract.zip: a first tract over the cells 1..a and, in some files, a
\* second row over the rest, under the same GEOID (a two-part tract) or another;
\* the first row may be degenerate (a = 0: no cell, area 0).
TractFiles ==
    {<<[GEOID |-> "T1", geometry |-> 1..a]>> : a \in Cells}
    \cup {<<[GEOID |-> "T1", geometry |-> 1..a], [GEOID |-> g, geometry |-> (a + 1)..NCells]>> :
            a \in 0..(NCells - 1), g \in {"T1", "T2"}}

\* Historic_Districts.zip: two districts of different outline, each a run of
\* cells; they may overlap, and together they may or may not cover a tract.
DistrictFiles ==
    {f \in {<<[hist_district_ID |-> "D2", geometry |-> b..c],
              [hist_district_ID |-> "D1", geometry |-> 1..a]>> :
                a \in Cells, b \in Cells, c \in Cells} :
        f[1].geometry # {} /\ f[1].geometry # f[2].geometry}

\* Historic_District_dates.csv: a district's designation year may be missing,
\* as an absent row (D1) or as an empty cell (D2).
DateFiles ==
    {d1 \o d2 : d1 \in {<<>>, <<[hist_district_ID |-> "D1", year |-> Flt(1985)]>>},
                d2 \in {<<[hist_district_ID |-> "D2", year |-> NaN]>>,
                        <<[hist_district_ID |-> "D2", year |-> Flt(2010)]>>}}

Row2020(geoid, total, white, h_total, h_owned, h_rental) ==
    [GEOID |-> geoid,
     attrs |-> [v \in CsvCols2020 |->
                  CASE v = "pop_total"     -> total
                    [] v = "pop_white"     -> white
                    [] v = "housing_total" -> h_total
                    [] v = "housing_owned" -> h_owned
                    [] OTHER               -> h_rental]]

RowNhgis(statefp, geoid, year, aa, ab, ae) ==
    [STATEFP |-> statefp, GEOID |-> geoid, YEAR |-> year,
     B18AA |-> aa, B18AB |-> ab, B18AC |-> "0", B18AD |-> "0", B18AE |-> ae]

\* An ordinary pop_by_tract_2020.csv: both tracts, and a tract the shapefile lacks.
PlainPop2020 ==
    <<Row2020("T2", Flt(1), Flt(1), Flt(1), Flt(0), Flt(1)),
      Row2020("T1", Flt(2), Flt(1), Flt(2), Flt(1), Flt(1)),
      Row2020("T9", Flt(1), Flt(0), Flt(1), Flt(1), Flt(0))>>

\* An ordinary NHGIS extract: two census years for two tracts, a row of
\* another state, and a tract the shapefile lacks.
PlainNhgis ==
    <<RowNhgis("11", "T1", "1980", "1", "1", ""),
      RowNhgis("11", "T2", "1980", "0", "2", ""),
      RowNhgis("24", "T1", "1980", "2", "2", ""),
      RowNhgis("11", "T1", "2020", "2", "0", "0"),
      RowNhgis("11", "T2", "2020", "1", "1", "1"),
      RowNhgis("11", "T9", "2020", "1", "1", "1")>>

\* The geometry the attribute cases run on: two tracts inside one district.
PlainTracts == <<[GEOID |-> "T1", geometry |-> {1}],
                 [GEOID |-> "T2", geometry |-> 2..NCells]>>
PlainDistricts == <<[hist_district_ID |-> "D1", geometry |-> Cells]>>
PlainDates == <<[hist_district_ID |-> "D1", year |-> Flt(1985)]>>

Counts == {Flt(i) : i \in 0..MaxCount}
CountTexts == {ToString(i) : i \in 0..MaxCount} \cup {""}

\* A total and a part of it as the census tabulates them: each a count or
\* missing, the part never above the total.
TotalAndPart ==
    {p \in (Counts \cup {NaN}) \X (Counts \cup {NaN}) :
        (IsNum(p[1]) /\ IsNum(p[2])) => FLe(p[2], p[1])}

\* pop_by_tract_2020.csv with any such counts for tract T1, alone, beside a
\* second tract, or listed twice.
Pop2020Files ==
    LET free == {Row2020("T1", p[1], p[2], h[1], FSub(h[1], h[2]), h[2]) :
                    p \in TotalAndPart, h \in TotalAndPart}
    IN  {<<r>> : r \in free}
        \cup {<<r, Row2020("T2", Flt(2), Flt(1), Flt(2), Flt(1), Flt(1))>> : r \in free}
        \cup {<<Row2020("T1", Flt(2), Flt(1), Flt(2), Flt(1), Flt(1)),
                Row2020("T1", Flt(1), Flt(1), Flt(1), Flt(0), Flt(1))>>}

\* NHGIS extracts with any counts (or none) for tract T1 in 1980, alone or
\* followed by one more row: another tract, the same tract and year again, or
\* another year.
NhgisFiles ==
    LET free == {RowNhgis("11", "T1", "1980", aa, ab, ae) :
                    aa \in CountTexts, ab \in CountTexts, ae \in {"", "0"}}
        more == {<<>>,
                 <<RowNhgis("11", "T2", "1980", "1", "1", "")>>,
                 <<RowNhgis("11", "T1", "1980", "1", "1", "")>>,
                 <<RowNhgis("11", "T1", "2020", "1", "1", "0")>>}
    IN  {<<r>> \o m : r \in free, m \in more}

Disk(districts, dates, tract_file, pop2020, nhgis) ==
    [Historic_Districts |-> districts, Historic_District_dates |-> dates,
     tl_2020_11_tract |-> tract_file, pop_by_tract_2020 |-> pop2020,
     nhgis0001 |-> nhgis, hist_districts_gpkg |-> <<>>, tracts_dc_gpkg |-> <<>>]

\* The input files of a run: any geometry with ordinary attribute tables, or
\* the plain geometry with any attribute table of one of the two scripts.
Inputs ==
    {Disk(h, d, t, PlainPop2020, PlainNhgis) :
        h \in DistrictFiles, d \in DateFiles, t \in TractFiles}
    \cup {Disk(PlainDistricts, PlainDates, PlainTracts, p, PlainNhgis) : p \in Pop2020Files}
    \cup {Disk(PlainDistricts, PlainDates, PlainTracts, PlainPop2020, n) : n \in NhgisFiles}

\* datetime.datetime.now().year of a run (the script is dated 2023).
RunYears == {2023, 2024}

\* -------------------------------------------------------------------- state
VARIABLES
    pc,                 \* the cell of the two scripts that runs next
    disk,               \* the files: the five inputs and the two geopackages
    today,              \* script 2: today.year
    hist_districts, pop, tracts, merge_report,
    slices, realloc, by_hist_district, by_hist_status,
    ts_hist_districts, ts_tracts, ts_pop,      \* script 1 of 2: its own frames
    year_i,             \* index in years of the next loop iteration
    worker,             \* per year: the step its worker takes next (parallel loop)
    pop_dic, tracts_dic, slices_dic, realloc_dic, by_hist_district_dic,
    by_hist_district_1970_2020

s2vars == <<today, hist_districts, pop, tracts, merge_report, slices, realloc,
            by_hist_district, by_hist_status>>
tsvars == <<ts_hist_districts, ts_tracts, ts_pop, year_i, worker, pop_dic, tracts_dic,
            slices_dic, realloc_dic, by_hist_district_dic, by_hist_district_1970_2020>>
vars == <<pc, disk, s2vars, tsvars>>

Init ==
    /\ pc = "s2_designation"
    /\ disk \in Inputs
    /\ today = 0
    /\ hist_districts = <<>> /\ pop = <<>> /\ tracts = <<>>
    /\ merge_report = [both |-> 0, left_only |-> 0, right_only |-> 0]
    /\ slices = <<>> /\ realloc = <<>>
    /\ by_hist_district = <<>> /\ by_hist_status = <<>>
    /\ ts_hist_districts = <<>> /\ ts_tracts = <<>> /\ ts_pop = <<>>
    /\ year_i = 1
    /\ worker = [y \in Range(years) |-> "overlay"]
    /\ pop_dic = <<>> /\ tracts_dic = <<>> /\ slices_dic = <<>>
    /\ realloc_dic = <<>> /\ by_hist_district_dic = <<>>
    /\ by_hist_district_1970_2020 = <<>>

\* ------------------------------------------------------- script 2, cell by cell
\* Lines 58-111: today, the districts, their designation years; hist_districts.gpkg.
Designation ==
    /\ pc = "s2_designation"
    /\ \E y \in RunYears :
        /\ today' = y
        /\ hist_districts' = AddDesignation(disk.Historic_Districts,
                                            disk.Historic_District_dates, y)
    /\ disk' = [disk EXCEPT !.hist_districts_gpkg = hist_districts']
    /\ pc' = "s2_population"
    /\ UNCHANGED <<pop, tracts, merge_report, slices, realloc, by_hist_district,
                   by_hist_status, tsvars>>

\* Lines 116-119.
ReadPopulation ==
    /\ pc = "s2_population"
    /\ pop' = AddPopPoc2020(disk.pop_by_tract_2020)
    /\ pc' = "s2_tracts"
    /\ UNCHANGED <<disk, today, hist_districts, tracts, merge_report, slices, realloc,
                   by_hist_district, by_hist_status, tsvars>>

\* Lines 126-140: the tracts and their areas; tracts_dc.gpkg.
ReadTracts ==
    /\ pc = "s2_tracts"
    /\ tracts' = AddTractArea(disk.tl_2020_11_tract)
    /\ disk' = [disk EXCEPT !.tracts_dc_gpkg = tracts']
    /\ pc' = "s2_merge"
    /\ UNCHANGED <<today, hist_districts, pop, merge_report, slices, realloc,
                   by_hist_district, by_hist_status, tsvars>>

\* Lines 145-147: the 1:1 merge; a repeated GEOID on either side raises MergeError
\* and the script ends there.
MergeTracts ==
    /\ pc = "s2_merge"
    /\ IF UniqueKeys(tracts) /\ UniqueKeys(pop)
       THEN /\ tracts' = MergeInner(tracts, pop)
            /\ merge_report' = MergeIndicator(tracts')
            /\ pc' = "s2_overlay"
       ELSE /\ pc' = "s2_aborted"
            /\ UNCHANGED <<tracts, merge_report>>
    /\ UNCHANGED <<disk, today, hist_districts, pop, slices, realloc,
                   by_hist_district, by_hist_status, tsvars>>

\* Lines 154-166.
Overlay2020 ==
    /\ pc = "s2_overlay"
    /\ slices' = PrepareSlices2020(OverlayUnion(tracts, hist_districts, PopCols2020))
    /\ pc' = "s2_realloc"
    /\ UNCHANGED <<disk, today, hist_districts, pop, tracts, merge_report, realloc,
                   by_hist_district, by_hist_status, tsvars>>

\* Lines 169-186.
Allocate2020 ==
    /\ pc = "s2_realloc"
    /\ realloc' = Realloc2020(slices)
    /\ pc' = "s2_groupby"
    /\ UNCHANGED <<disk, today, hist_districts, pop, tracts, merge_report, slices,
                   by_hist_district, by_hist_status, tsvars>>

\* Lines 189-203: by_hist_district.csv.
ByDistrict2020 ==
    /\ pc = "s2_groupby"
    /\ by_hist_district' = AddPct2020(GroupBySum(realloc, PopCols2020))
    /\ pc' = "s2_status"
    /\ UNCHANGED <<disk, today, hist_districts, pop, tracts, merge_report, slices,
                   realloc, by_hist_status, tsvars>>

\* Lines 215-242: by_hist_status.csv.
ByStatus2020 ==
    /\ pc = "s2_status"
    /\ by_hist_status' = ByHistStatus(by_hist_district)
    /\ pc' = "s2_done"
    /\ UNCHANGED <<disk, today, hist_districts, pop, tracts, merge_report, slices,
                   realloc, by_hist_district, tsvars>>

\* ------------------------------------------------- script 1 of 2, cell by cell
\* Lines 56-134: the two geopackages of script 2 and the prepared population.
LoadTimeSeries ==
    /\ pc \in {"s2_done", "s2_aborted"}
    /\ ts_hist_districts' = disk.hist_districts_gpkg
    /\ ts_tracts' = disk.tracts_dc_gpkg
    /\ ts_pop' = PreparePop(disk.nhgis0001)
    /\ pc' = "ts_dissolve"
    /\ UNCHANGED <<disk, s2vars, year_i, worker, pop_dic, tracts_dic, slices_dic,
                   realloc_dic, by_hist_district_dic, by_hist_district_1970_2020>>

\* Lines 159-161.
Dissolve ==
    /\ pc = "ts_dissolve"
    /\ ts_tracts' = DissolveTracts(ts_tracts)
    /\ ts_hist_districts' = DissolveDistricts(ts_hist_districts)
    /\ pc' = "ts_loop"
    /\ UNCHANGED <<disk, s2vars, ts_pop, year_i, worker, pop_dic, tracts_dic, slices_dic,
                   realloc_dic, by_hist_district_dic, by_hist_district_1970_2020>>

\* Lines 169-248: one iteration of "for year in years".
YearIteration ==
    /\ pc = "ts_loop"
    /\ year_i <= Len(years)
    /\ LET year == years[year_i]
       IN  /\ pop_dic' = pop_dic @@ (year :> PopOfYear(ts_pop, year))
           /\ tracts_dic' = tracts_dic @@ (year :> MergeInner(ts_tracts, pop_dic'[year]))
           /\ slices_dic' = slices_dic @@
                  (year :> SlicesOfYear(tracts_dic'[year], ts_hist_districts))
           /\ realloc_dic' = realloc_dic @@ (year :> ReallocOfYear(slices_dic'[year]))
           /\ by_hist_district_dic' = by_hist_district_dic @@
                  (year :> ByDistrictOfYear(realloc_dic'[year], year))
           /\ by_hist_district_1970_2020' =
                  AppendRows(by_hist_district_1970_2020, by_hist_district_dic'[year])
    /\ year_i' = year_i + 1
    /\ pc' = IF year_i = Len(years) THEN "ts_percent" ELSE "ts_loop"
    /\ UNCHANGED <<disk, s2vars, ts_hist_districts, ts_tracts, ts_pop, worker>>

\* Lines 255-263: by_hist_district_1970_2020.csv.
PercentTimeSeries ==
    /\ pc = "ts_percent"
    /\ by_hist_district_1970_2020' = AddPctTS(by_hist_district_1970_2020)
    /\ pc' = "ts_done"
    /\ UNCHANGED <<disk, s2vars, ts_hist_districts, ts_tracts, ts_pop, year_i, worker,
                   pop_dic, tracts_dic, slices_dic, realloc_dic, by_hist_district_dic>>

Next ==
    \/ Designation
    \/ ReadPopulation
    \/ ReadTracts
    \/ MergeTracts
    \/ Overlay2020
    \/ Allocate2020
    \/ ByDistrict2020
    \/ ByStatus2020
    \/ LoadTimeSeries
    \/ Dissolve
    \/ YearIteration
    \/ PercentTimeSeries

Spec == Init /\ [][Next]_vars

\* ------------------------------------- the loop body, one worker per year
\* The body of "for year in years" cut at its section banners, so that the
\* sections of different years may run in any order: every section reads the
\* dissolved frames and its own year's dictionary entries, and writes its own
\* year's entries.

\* Lines 175-202: pop_dic[year], tracts_dic[year], slices_dic[year].
OverlayYear(year) ==
    /\ pc = "ts_loop"
    /\ worker[year] = "overlay"
    /\ pop_dic' = pop_dic @@ (year :> PopOfYear(ts_pop, year))
    /\ tracts_dic' = tracts_dic @@ (year :> MergeInner(ts_tracts, pop_dic'[year]))
    /\ slices_dic' = slices_dic @@ (year :> SlicesOfYear(tracts_dic'[year], ts_hist_districts))
    /\ worker' = [worker EXCEPT ![year] = "allocate"]
    /\ UNCHANGED <<pc, disk, s2vars, ts_hist_districts, ts_tracts, ts_pop, year_i,
                   realloc_dic, by_hist_district_dic, by_hist_district_1970_2020>>

\* A faulty variant of AllocateYear: the allocation takes the slices of a year
\* that is already overlaid, not necessarily its own.
AllocateYear_AnySlices(year) ==
    /\ pc = "ts_loop"
    /\ worker[year] = "allocate"
    /\ \E other \in DOMAIN slices_dic :
          realloc_dic' = realloc_dic @@ (year :> ReallocOfYear(slices_dic[other]))
    /\ worker' = [worker EXCEPT ![year] = "aggregate"]
    /\ UNCHANGED <<pc, disk, s2vars, ts_hist_districts, ts_tracts, ts_pop, year_i, pop_dic,
                   tracts_dic, slices_dic, by_hist_district_dic,
                   by_hist_district_1970_2020>>

\* Lines 205-221: area_share_dic[year], realloc_dic[year].
AllocateYear(year) ==
    /\ pc = "ts_loop"
    /\ worker[year] = "allocate"
    /\ realloc_dic' = realloc_dic @@ (year :> ReallocOfYear(slices_dic[year]))
    /\ worker' = [worker EXCEPT ![year] = "aggregate"]
    /\ UNCHANGED <<pc, disk, s2vars, ts_hist_districts, ts_tracts, ts_pop, year_i, pop_dic,
                   tracts_dic, slices_dic, by_hist_district_dic,
                   by_hist_district_1970_2020>>

\* Lines 226-244: by_hist_district_dic[year].
AggregateYear(year) ==
    /\ pc = "ts_loop"
    /\ worker[year] = "aggregate"
    /\ by_hist_district_dic' = by_hist_district_dic @@
            (year :> ByDistrictOfYear(realloc_dic[year], year))
    /\ worker' = [worker EXCEPT ![year] = "append"]
    /\ UNCHANGED <<pc, disk, s2vars, ts_hist_districts, ts_tracts, ts_pop, year_i, pop_dic,
                   tracts_dic, slices_dic, realloc_dic, by_hist_district_1970_2020>>

\* Line 248: the year's rows join the combined table; the loop ends with the
\* last year to join.
AppendYear(year) ==
    /\ pc = "ts_loop"
    /\ worker[year] = "append"
    /\ by_hist_district_1970_2020' =
            AppendRows(by_hist_district_1970_2020, by_hist_district_dic[year])
    /\ worker' = [worker EXCEPT ![year] = "done"]
    /\ pc' = IF \A y \in Range(years) : worker'[y] = "done" THEN "ts_percent" ELSE "ts_loop"
    /\ UNCHANGED <<disk, s2vars, ts_hist_districts, ts_tracts, ts_pop, year_i, pop_dic,
                   tracts_dic, slices_dic, realloc_dic, by_hist_district_dic>>

\* The input files of the runs whose loop is scheduled freely: the ordinary
\* tables, every district dated, D1 over all cells and D2 over the first cells.
ParInputs ==
    {Disk(h, <<[hist_district_ID |-> "D1", year |-> Flt(1985)],
               [hist_district_ID |-> "D2", year |-> Flt(2010)]>>,
          PlainTracts, PlainPop2020, PlainNhgis) :
        h \in {f \in DistrictFiles : f[2].geometry = Cells /\ 1 \in f[1].geometry}}

InitPar == Init /\ disk \in ParInputs

NextPar ==
    \/ Designation
    \/ ReadPopulation
    \/ ReadTracts
    \/ MergeTracts
    \/ Overlay2020
    \/ Allocate2020
    \/ ByDistrict2020
    \/ ByStatus2020
    \/ LoadTimeSeries
    \/ Dissolve
    \/ \E year \in Range(years) : OverlayYear(year)
    \/ \E year \in Range(years) : AllocateYear(year)
    \/ \E year \in Range(years) : AggregateYear(year)
    \/ \E year \in Range(years) : AppendYear(year)
    \/ PercentTimeSeries

SpecPar == InitPar /\ [][NextPar]_vars

\* ------------------------------------------------------------------- claims
\* What the claims speak of.

\* The targets together cover the whole of the source row t.
Covered(t, districts) == t.geometry \subseteq AllGeometry(districts)

\* The sum of column v over the rows of the source region geoid.
SumOfSource(rows, geoid, v) ==
    LET own == SelectSeq(rows, LAMBDA r : r.GEOID = geoid)
    IN  FoldSeq(FAdd, Flt(0), [i \in 1..Len(own) |-> own[i].attrs[v]])

\* The source region of row i has one snapshot in the table (one row).
OneSnapshot(rows, i) == \A j \in 1..Len(rows) : rows[j].GEOID = rows[i].GEOID => j = i

\* Every source row that the targets cover keeps its value: its slices add up to it.
Conserved(sources, districts, allocated) ==
    \A i \in 1..Len(sources) :
        (OneSnapshot(sources, i) /\ Covered(sources[i], districts)) =>
            \A v \in DOMAIN sources[i].attrs :
                IsNum(sources[i].attrs[v]) =>
                    SumOfSource(allocated, sources[i].GEOID, v) = sources[i].attrs[v]

\* C1 (as claimed): for every source region and observation year whose targets
\* cover it completely, the allocated values of its slices add up to the
\* source's value, for every attribute, in the 2020 run and in every year of
\* the time series.
C1_Conservation ==
    /\ realloc # <<>> => Conserved(tracts, hist_districts, realloc)
    /\ \A y \in DOMAIN realloc_dic :
          Conserved(tracts_dic[y], ts_hist_districts, realloc_dic[y])

\* The summed area of the slices that source row i shares with a target.
MatchedArea(sl, geoid) ==
    LET own == SelectSeq(sl, LAMBDA r : r.GEOID = geoid /\ r.hist_district_ID # "NA")
    IN  FoldSeq(FAdd, Flt(0), [i \in 1..Len(own) |-> own[i].s_area])

\* The slices of every source row stay within its recorded area, and fill it
\* exactly when the targets cover the row.
WithinSource(sources, districts, sl) ==
    \A i \in 1..Len(sources) :
        OneSnapshot(sources, i) =>
            /\ FLe(MatchedArea(sl, sources[i].GEOID), sources[i].tract_area)
            /\ MatchedArea(sl, sources[i].GEOID) = sources[i].tract_area
                  <=> Covered(sources[i], districts)

\* C3 (as claimed): for every source region the areas of its slices add up to
\* at most the region's recorded area, for any targets (overlapping ones too),
\* and to exactly that area if and only if the targets cover the region.
C3_PartitionBound ==
    /\ slices # <<>> => WithinSource(tracts, hist_districts, slices)
    /\ \A y \in DOMAIN slices_dic :
          WithinSource(tracts_dic[y], ts_hist_districts, slices_dic[y])

\* A percentage is NaN or lies in [0, 100].
InPercentDomain(x) == IsNaN(x) \/ (FLe(Flt(0), x) /\ FLe(x, Flt(100)))

\* C4 (as claimed): for attribute tables of non-negative counts and nulls,
\* every derived percentage of every output row is NaN or in [0, 100].
C4_PercentageDomain ==
    /\ \A i \in 1..Len(by_hist_district) :
          /\ InPercentDomain(by_hist_district[i].pct_poc)
          /\ InPercentDomain(by_hist_district[i].pct_rental)
    /\ \A i \in 1..Len(by_hist_status) :
          /\ InPercentDomain(by_hist_status[i].pct_poc)
          /\ InPercentDomain(by_hist_status[i].pct_rental)
    /\ pc = "ts_done" =>
          \A i \in 1..Len(by_hist_district_1970_2020) :
              /\ InPercentDomain(by_hist_district_1970_2020[i].perc_poc)
              /\ InPercentDomain(by_hist_district_1970_2020[i].perc_white)

IsZero(x) == IsNum(x) /\ x.n = 0

\* C5 (as claimed): a row whose aggregated denominator is zero has NaN for
\* every percentage derived from it.
C5_ZeroDenominator ==
    /\ \A i \in 1..Len(by_hist_district) :
          /\ IsZero(by_hist_district[i].attrs["pop_total"]) =>
                IsNaN(by_hist_district[i].pct_poc)
          /\ IsZero(by_hist_district[i].attrs["housing_total"]) =>
                IsNaN(by_hist_district[i].pct_rental)
    /\ pc = "ts_done" =>
          \A i \in 1..Len(by_hist_district_1970_2020) :
              IsZero(by_hist_district_1970_2020[i].attrs["total_pop"]) =>
                  /\ IsNaN(by_hist_district_1970_2020[i].perc_poc)
                  /\ IsNaN(by_hist_district_1970_2020[i].perc_white)

\* The geometry of the source region geoid in the table handed to the overlay.
SourceGeometry(sources, geoid) ==
    (CHOOSE t \in Range(sources) : t.GEOID = geoid).geometry

\* Every allocated value is the slice's source value times the slice's share of
\* the whole source region.
ByAreaShare(sources, sl, allocated) ==
    \A i \in 1..Len(sl) :
        \A v \in DOMAIN sl[i].attrs :
            allocated[i].attrs[v] =
                FMul(sl[i].attrs[v],
                     FDiv(Area(sl[i].geometry),
                          Area(SourceGeometry(sources, sl[i].GEOID))))

\* C10 (as claimed): the allocated value of every slice and attribute is the
\* source value times slice area / area of the whole source region as overlaid,
\* also once the rows sharing a GEOID are dissolved into one region.
C10_AllocationFormula ==
    /\ realloc # <<>> => ByAreaShare(tracts, slices, realloc)
    /\ \A y \in DOMAIN realloc_dic :
          ByAreaShare(tracts_dic[y], slices_dic[y], realloc_dic[y])

\* The designation year the dates file records for a district (NaN: none).
EventYear(id) == DesYear(disk.Historic_District_dates, id)

\* The census year of the 2020 run's data (the ACS 5-year release requested).
ObservationYear2020 == 2020

\* by_hist_district of the 2020 run has been computed from a merged table.
Aggregated2020 ==
    /\ merge_report.both > 0
    /\ pc \notin {"s2_designation", "s2_population", "s2_tracts", "s2_merge",
                  "s2_overlay", "s2_realloc", "s2_groupby", "s2_aborted"}

\* The time-series rows of every processed year carry year - designation year.
YearsSinceTS ==
    /\ \A y \in DOMAIN by_hist_district_dic :
          \A i \in 1..Len(by_hist_district_dic[y]) :
              LET r == by_hist_district_dic[y][i]
              IN  IsNum(EventYear(r.hist_district_ID)) =>
                    /\ r.year = YearToFloat(y)
                    /\ r.years_since_des = FSub(YearToFloat(y), EventYear(r.hist_district_ID))
                    /\ FLt(r.years_since_des, Flt(0))
                          <=> FLt(YearToFloat(y), EventYear(r.hist_district_ID))
    /\ \A i \in 1..Len(by_hist_district_1970_2020) :
          LET r == by_hist_district_1970_2020[i]
          IN  IsNum(EventYear(r.hist_district_ID)) =>
                r.years_since_des = FSub(r.year, EventYear(r.hist_district_ID))

\* The 2020 rows of districts with a designation year carry base - that year.
TotYears2020(base) ==
    \A i \in 1..Len(by_hist_district) :
        LET r == by_hist_district[i]
        IN  IsNum(EventYear(r.hist_district_ID)) =>
                r.tot_years = FSub(Flt(base), EventYear(r.hist_district_ID))

\* C6 (as claimed): every output row of a target with a designation year
\* carries observation year - designation year, the 2020 run's rows included
\* (observation year 2020).
C6_AsClaimed == YearsSinceTS /\ TotYears2020(ObservationYear2020)

\* The district row h has no designation year on record.
Undated(h) == IsNaN(EventYear(h.hist_district_ID))

\* Some row of the table is about district id.
HasRow(table, id) == \E i \in 1..Len(table) : table[i].hist_district_ID = id

\* District h shares area with some source row of the table.
Touches(h, sources) == \E i \in 1..Len(sources) : sources[i].geometry \cap h.geometry # {}

\* C7 (as claimed): a district without a designation year has a row, with
\* years-since-event null, in every year in which it has slices, and in the
\* 2020 table.
C7_AsClaimed ==
    /\ \A y \in DOMAIN by_hist_district_dic :
          \A k \in 1..Len(ts_hist_districts) :
              (Undated(ts_hist_districts[k]) /\ Touches(ts_hist_districts[k], tracts_dic[y])) =>
                  \E i \in 1..Len(by_hist_district_dic[y]) :
                      /\ by_hist_district_dic[y][i].hist_district_ID =
                            ts_hist_districts[k].hist_district_ID
                      /\ IsNaN(by_hist_district_dic[y][i].years_since_des)
    /\ Aggregated2020 =>
          \A k \in 1..Len(hist_districts) :
              (Undated(hist_districts[k]) /\ Touches(hist_districts[k], tracts)) =>
                  \E i \in 1..Len(by_hist_district) :
                      /\ by_hist_district[i].hist_district_ID = hist_districts[k].hist_district_ID
                      /\ IsNaN(by_hist_district[i].tot_years)

\* C7 (amended): a district without a designation year has no slice and no
\* row in any year of the time series (its slices are dropped before the
\* allocation); in the 2020 table it keeps its row, and that row's tot_years
\* is the placeholder -666666, not null.
C7_UndatedTargets ==
    /\ \A y \in DOMAIN by_hist_district_dic :
          /\ \A i \in 1..Len(slices_dic[y]) : ~Undated(slices_dic[y][i])
          /\ \A i \in 1..Len(by_hist_district_dic[y]) : ~Undated(by_hist_district_dic[y][i])
    /\ \A i \in 1..Len(by_hist_district_1970_2020) : ~Undated(by_hist_district_1970_2020[i])
    /\ Aggregated2020 =>
          /\ \A k \in 1..Len(hist_districts) :
                (Undated(hist_districts[k]) /\ Touches(hist_districts[k], tracts)) =>
                    \E i \in 1..Len(by_hist_district) :
                        /\ by_hist_district[i].hist_district_ID =
                              hist_districts[k].hist_district_ID
                        /\ by_hist_district[i].tot_years = Flt(NoYears)
          /\ \A i \in 1..Len(by_hist_district) : IsNum(by_hist_district[i].tot_years)

\* C7 witness: a finished run in which a district without a designation year
\* lies on a tract that has population in some census year and in 2020 data.
C7_Witness ==
    /\ pc = "ts_done"
    /\ Aggregated2020
    /\ \E k \in 1..Len(ts_hist_districts) :
          /\ Undated(ts_hist_districts[k])
          /\ \E y \in DOMAIN tracts_dic : Touches(ts_hist_districts[k], tracts_dic[y])
          /\ Touches(ts_hist_districts[k], tracts)
          /\ HasRow(by_hist_district, ts_hist_districts[k].hist_district_ID)

\* Rows i < j of the table are in (year, district) order.
YearMajor(table) ==
    \A i, j \in 1..Len(table) :
        i < j =>
            \/ FLt(table[i].year, table[j].year)
            \/ /\ table[i].year = table[j].year
               /\ ~LessStr(table[j].hist_district_ID, table[i].hist_district_ID)

\* Rows i < j of the table are in (district, year) order.
TargetMajor(table) ==
    \A i, j \in 1..Len(table) :
        i < j =>
            \/ LessStr(table[i].hist_district_ID, table[j].hist_district_ID)
            \/ /\ table[i].hist_district_ID = table[j].hist_district_ID
               /\ FLe(table[i].year, table[j].year)

\* C8 (as claimed): the finished time-series table is ordered by district id
\* and, within a district, by observation year.
C8_AsClaimed == pc = "ts_done" => TargetMajor(by_hist_district_1970_2020)

\* C8 (amended): the time-series table is ordered by observation year and,
\* within a year, by district id, at every point of the run.
C8_RowOrder == YearMajor(by_hist_district_1970_2020)

\* C8 witness: a finished table with a later district's row ahead of an
\* earlier district's row of a later year.
C8_Witness ==
    /\ pc = "ts_done"
    /\ \E i, j \in 1..Len(by_hist_district_1970_2020) :
          /\ i < j
          /\ LessStr(by_hist_district_1970_2020[j].hist_district_ID,
                     by_hist_district_1970_2020[i].hist_district_ID)
          /\ FLt(by_hist_district_1970_2020[i].year, by_hist_district_1970_2020[j].year)

\* C9: no two rows of the time-series table share (district, year), and no two
\* rows of the 2020 table share a district, whatever the slices and however
\* often a (tract, year) is listed in the attribute table.
C9_OneRowPerTargetYear ==
    /\ \A i, j \in 1..Len(by_hist_district_1970_2020) :
          (/\ by_hist_district_1970_2020[i].hist_district_ID =
                by_hist_district_1970_2020[j].hist_district_ID
           /\ by_hist_district_1970_2020[i].year = by_hist_district_1970_2020[j].year)
          => i = j
    /\ \A i, j \in 1..Len(by_hist_district) :
          by_hist_district[i].hist_district_ID = by_hist_district[j].hist_district_ID
          => i = j

\* C9 witness: a finished run in which, in one census year, a tract listed
\* twice gives a district two slices, and a district takes slices of two tracts.
C9_Witness ==
    /\ pc = "ts_done"
    /\ by_hist_district_1970_2020 # <<>>
    /\ \E y \in DOMAIN slices_dic :
          \E i, j \in 1..Len(slices_dic[y]) :
              /\ i # j
              /\ slices_dic[y][i].GEOID = slices_dic[y][j].GEOID
              /\ slices_dic[y][i].hist_district_ID = slices_dic[y][j].hist_district_ID
    /\ \E i, j \in 1..Len(slices) :
          /\ slices[i].GEOID # slices[j].GEOID
          /\ slices[i].hist_district_ID = slices[j].hist_district_ID

\* The part of tract row t that no district covers.
Uncovered(t, districts) == t.geometry \ AllGeometry(districts)

\* The rows of the table about district id.
RowsOf(table, id) == SelectSeq(table, LAMBDA r : r.hist_district_ID = id)

\* Column v of the table, summed as pandas sums it.
Total(table, v) == SumSkipNa([i \in 1..Len(table) |-> table[i].attrs[v]])

\* The share of column v of the source rows that lies outside every district.
UnmatchedShare(sources, districts, v) ==
    SumSkipNa([i \in 1..Len(sources) |->
        IF Uncovered(sources[i], districts) = {} THEN NaN
        ELSE FMul(sources[i].attrs[v],
                  FDiv(Area(Uncovered(sources[i], districts)), Area(sources[i].geometry)))])

\* No two districts share area inside a source row.
NoOverlap(sources, districts) ==
    \A i \in 1..Len(sources) :
        \A j, k \in 1..Len(districts) :
            j # k => sources[i].geometry \cap districts[j].geometry
                                         \cap districts[k].geometry = {}

\* The aggregated table has the 'NA' row exactly when some source row is partly
\* uncovered, and the row holds the uncovered share of every attribute.
SentinelKept(sources, districts, table) ==
    /\ HasRow(table, "NA") <=>
          \E i \in 1..Len(sources) : Uncovered(sources[i], districts) # {}
    /\ Len(RowsOf(table, "NA")) <= 1
    /\ \A v \in PopCols2020 :
          HasRow(table, "NA") =>
              RowsOf(table, "NA")[1].attrs[v] = UnmatchedShare(sources, districts, v)

WithArea(sources) == SelectSeq(sources, LAMBDA t : t.geometry # {})

ZeroAreaSkipped(sources, sl, allocated) ==
    \A i \in 1..Len(sources) :
        IsZero(sources[i].tract_area) =>
            /\ \A k \in 1..Len(sl) : sl[k].GEOID # sources[i].GEOID
            /\ \A k \in 1..Len(allocated) : allocated[k].GEOID # sources[i].GEOID

\* C11 (as claimed): a tract whose area is 0 gets no slice and no allocated
\* record, in the 2020 run and in every year of the time series, so nothing is
\* divided by a zero area.
C11_ZeroAreaSource ==
    /\ ZeroAreaSkipped(tracts, slices, realloc)
    /\ \A y \in DOMAIN slices_dic :
          ZeroAreaSkipped(tracts_dic[y], slices_dic[y], realloc_dic[y])

\* by_hist_district as script 2 computes it from the input files d when it is
\* run in the year y (lines 58-200).
Table2020(d, y) ==
    LET districts == AddDesignation(d.Historic_Districts, d.Historic_District_dates, y)
        merged    == MergeInner(AddTractArea(d.tl_2020_11_tract),
                                AddPopPoc2020(d.pop_by_tract_2020))
        sl        == PrepareSlices2020(OverlayUnion(merged, districts, PopCols2020))
    IN  AddPct2020(GroupBySum(Realloc2020(sl), PopCols2020))

\* The rows of one census year as the time-series script computes them from
\* the input files d when script 2 was run in the year y (lines 56-244).
YearRows(d, y, year) ==
    LET districts == DissolveDistricts(
                         AddDesignation(d.Historic_Districts, d.Historic_District_dates, y))
        merged    == MergeInner(DissolveTracts(AddTractArea(d.tl_2020_11_tract)),
                                PopOfYear(PreparePop(d.nhgis0001), year))
    IN  ByDistrictOfYear(ReallocOfYear(SlicesOfYear(merged, districts)), year)

\* The rows of the first n census years, appended in the order of the loop
\* (line 248).
RECURSIVE RowsOfYears(_, _, _)
RowsOfYears(d, y, n) ==
    IF n = 0 THEN <<>>
    ELSE AppendRows(RowsOfYears(d, y, n - 1), YearRows(d, y, years[n]))

\* by_hist_district_1970_2020 as written to the csv file (lines 255-263).
TableTS(d, y) == AddPctTS(RowsOfYears(d, y, Len(years)))

\* C12 (as claimed): the tables a run writes are the tables any other run on
\* the same input files writes, whatever the year it is run in: tot_years and
\* the percentages of the 2020 table, years_since_des and the percentages of
\* the time-series table.
C12_Determinism ==
    /\ Aggregated2020 => \A y \in RunYears : by_hist_district = Table2020(disk, y)
    /\ pc = "ts_done" => \A y \in RunYears : by_hist_district_1970_2020 = TableTS(disk, y)

\* The time-series half of C12 alone.
C12_TimeSeriesPart ==
    pc = "ts_done" => \A y \in RunYears : by_hist_district_1970_2020 = TableTS(disk, y)

\* C13: however the sections of the years are scheduled, the rows aggregated
\* for a year are the rows the year yields on its own from its snapshots and the
\* dissolved geometry; the allocation of a year comes from that year's slices;
\* and the finished table holds the same rows as the table of the sequential
\* loop (only their order follows the schedule).
C13_YearIndependence ==
    /\ \A y \in DOMAIN by_hist_district_dic :
          by_hist_district_dic[y] = YearRows(disk, today, y)
    /\ \A y \in DOMAIN realloc_dic : realloc_dic[y] = ReallocOfYear(slices_dic[y])
    /\ pc = "ts_done" =>
          /\ Range(by_hist_district_1970_2020) = Range(TableTS(disk, today))
          /\ Len(by_hist_district_1970_2020) = Len(TableTS(disk, today))

\* C13 witness: a finished run whose years joined the table out of order (the
\* 2020 rows ahead of the 1980 rows), after 2020 was aggregated while 1980
\* was not yet overlaid.
C13_Witness ==
    /\ pc = "ts_done"
    /\ by_hist_district_1970_2020 # <<>>
    /\ by_hist_district_1970_2020 # TableTS(disk, today)
    /\ \E i, j \in 1..Len(by_hist_district_1970_2020) :
          /\ i < j
          /\ by_hist_district_1970_2020[i].year = Flt(2020)
          /\ by_hist_district_1970_2020[j].year = Flt(1980)

\* The 2020 merge has been carried out (it did not raise).
Merged2020 ==
    /\ pc \notin {"s2_designation", "s2_population", "s2_tracts", "s2_merge", "s2_aborted"}
    /\ UniqueKeys(disk.tl_2020_11_tract)
    /\ UniqueKeys(pop)

\* The number of rows of the table whose GEOID the other table lacks.
Unmatched(table, other) ==
    Cardinality({i \in 1..Len(table) :
                    \A j \in 1..Len(other) : other[j].GEOID # table[i].GEOID})

\* C14 (as claimed): after the 2020 merge, the tracts without a population row
\* and the population rows without a tract are left out of the allocation and
\* the printed merge indicator counts them (left_only, right_only).
C14_UnmatchedCounted ==
    Merged2020 =>
        /\ \A i \in 1..Len(tracts) :
              /\ \E j \in 1..Len(pop) : pop[j].GEOID = tracts[i].GEOID
              /\ \E j \in 1..Len(disk.tl_2020_11_tract) :
                    disk.tl_2020_11_tract[j].GEOID = tracts[i].GEOID
        /\ merge_report.left_only = Unmatched(disk.tl_2020_11_tract, pop)
        /\ merge_report.right_only = Unmatched(pop, disk.tl_2020_11_tract)

\* Column v of the allocated rows of district id, added up as numbers are
\* added: the sum is missing as soon as one of the values is.
PlainSum(allocated, id, v) ==
    LET own == SelectSeq(allocated, LAMBDA r : r.hist_district_ID = id)
    IN  FoldSeq(FAdd, Flt(0), [i \in 1..Len(own) |-> own[i].attrs[v]])

\* Every aggregated attribute is the plain sum of its district's allocated rows.
SumsOfSlices(table, allocated, cols) ==
    \A i \in 1..Len(table) :
        \A v \in cols :
            table[i].attrs[v] = PlainSum(allocated, table[i].hist_district_ID, v)

\* The attribute half of C15: no aggregated value counts a missing value as 0.
C15_NoInventedSums ==
    /\ SumsOfSlices(by_hist_district, realloc, PopCols2020)
    /\ \A y \in DOMAIN by_hist_district_dic :
          SumsOfSlices(by_hist_district_dic[y], realloc_dic[y], PopColsTS)

\* The years half of C15: a row without a designation year shows no number of
\* years.
C15_NoPlaceholder ==
    \A i \in 1..Len(by_hist_district) :
        Undated(by_hist_district[i]) => IsNaN(by_hist_district[i].tot_years)

\* C15 (as claimed): an aggregated attribute is the sum of the allocated values
\* of all the row's slices, missing when one of them is missing, and a missing
\* years-since-designation is shown as missing, not as a number.
C15_NoInventedValues == C15_NoInventedSums /\ C15_NoPlaceholder

\* pop_poc of the row is its total_pop less its pop_white.
PocIsRest(row) == row.attrs["pop_poc"] = FSub(row.attrs["total_pop"], row.attrs["pop_white"])

\* C16 (as claimed): in every row of the time-series tables the aggregated
\* pop_poc equals the aggregated total_pop minus the aggregated pop_white, so
\* the published perc_poc is 100 * pop_poc / total_pop of the row.
C16_PocConsistency ==
    /\ \A y \in DOMAIN by_hist_district_dic :
          \A i \in 1..Len(by_hist_district_dic[y]) : PocIsRest(by_hist_district_dic[y][i])
    /\ \A i \in 1..Len(by_hist_district_1970_2020) :
          PocIsRest(by_hist_district_1970_2020[i])
    /\ pc = "ts_done" =>
          \A i \in 1..Len(by_hist_district_1970_2020) :
              by_hist_district_1970_2020[i].perc_poc =
                  Pct(by_hist_district_1970_2020[i].attrs["pop_poc"],
                      by_hist_district_1970_2020[i].attrs["total_pop"])

\* C16 on the runs whose recorded tract areas are not 0 (no infinite values).
C16_WithAreas ==
    (\A i \in 1..Len(ts_tracts) : ~IsZero(ts_tracts[i].tract_area)) => C16_PocConsistency

\* by_hist_status of the 2020 run has been computed.
StatusDone == Aggregated2020 /\ pc # "s2_status"

\* The rows of by_hist_status with the given label.
StatusRows(label) == SelectSeq(by_hist_status, LAMBDA r : r.in_hist_district = label)

\* The rows of by_hist_district inside (TRUE) or outside (FALSE) the districts.
DistrictRows(inside) ==
    SelectSeq(by_hist_district, LAMBDA r : (r.hist_district_ID # "NA") = inside)

\* Column v of the rows, added up.
ColumnSum(rows, v) == FoldSeq(FAdd, Flt(0), [i \in 1..Len(rows) |-> rows[i].attrs[v]])

\* C17: by_hist_status has at most the rows 'No' and 'Yes', one each; the 'No'
\* row is the 'NA' row of by_hist_district, the 'Yes' row is the sum of all its
\* other rows, so Yes + No is the total of by_hist_district for every summed
\* attribute; and the percentages of a row come from the row's summed counts.
C17_StatusRollUp ==
    StatusDone =>
        /\ \A i \in 1..Len(by_hist_status) : by_hist_status[i].in_hist_district \in {"Yes", "No"}
        /\ Len(StatusRows("Yes")) <= 1 /\ Len(StatusRows("No")) <= 1
        /\ Len(StatusRows("No")) = Len(DistrictRows(FALSE))
        /\ StatusRows("Yes") # <<>> <=> DistrictRows(TRUE) # <<>>
        /\ \A v \in SumVars :
              /\ StatusRows("No") # <<>> =>
                    StatusRows("No")[1].attrs[v] = DistrictRows(FALSE)[1].attrs[v]
              /\ StatusRows("Yes") # <<>> =>
                    StatusRows("Yes")[1].attrs[v] = ColumnSum(DistrictRows(TRUE), v)
              /\ ColumnSum(by_hist_status, v) = ColumnSum(by_hist_district, v)
        /\ StatusRows("No") # <<>> =>
              /\ StatusRows("No")[1].pct_poc = DistrictRows(FALSE)[1].pct_poc
              /\ StatusRows("No")[1].pct_rental = DistrictRows(FALSE)[1].pct_rental
        /\ \A i \in 1..Len(by_hist_status) :
              /\ by_hist_status[i].pct_poc =
                    FDiv(FMul(Flt(100), by_hist_status[i].attrs["pop_poc"]),
                         by_hist_status[i].attrs["pop_total"])
              /\ by_hist_status[i].pct_rental =
                    FDiv(FMul(Flt(100), by_hist_status[i].attrs["housing_rental"]),
                         by_hist_status[i].attrs["housing_total"])

\* C17 witness: a 2020 run with a 'No' row and a 'Yes' row that sums two
\* districts, whose pct_poc is not the average of the two districts' pct_poc.
C17_Witness ==
    /\ StatusDone
    /\ StatusRows("No") # <<>>
    /\ StatusRows("Yes") # <<>>
    /\ Len(DistrictRows(TRUE)) = 2
    /\ IsNum(StatusRows("Yes")[1].pct_poc)
    /\ IsNum(DistrictRows(TRUE)[1].pct_poc) /\ IsNum(DistrictRows(TRUE)[2].pct_poc)
    /\ StatusRows("Yes")[1].pct_poc #
          FDiv(FAdd(DistrictRows(TRUE)[1].pct_poc, DistrictRows(TRUE)[2].pct_poc), Flt(2))

====
